---- MODULE Spec2Model ----
(***************************************************************************)
(* Model of src/graphics.rs (gestalt-web): WebGlCanvas::new, the linear    *)
(* construction sequence of a WebGL2 triangle, WebGlCanvas::render, the    *)
(* per-frame draw, and the helpers compile_shader and link_program.        *)
(*                                                                         *)
(* The host (document, canvas, GPU driver) is the environment: each of its *)
(* answers is drawn with \E from the set of answers the binding's type     *)
(* allows (Option, Result, JsValue).  Every GPU call the code issues is    *)
(* appended to a log, `calls` during construction and `frame` for the      *)
(* latest render, next to the GPU state the call changes.                  *)
(***************************************************************************)
EXTENDS Integers, Sequences, FiniteSets, TLC

VARIABLES pc, host, loc, gl, calls, self, ret, frame, lastTime

vars == <<pc, host, loc, gl, calls, self, ret, frame, lastTime>>

(***************************************************************************)
(* Option<T> is <<>> (None) or <<x>> (Some(x)); Result<T, E> is a record.  *)
(***************************************************************************)
None == <<>>

Some(x) == <<x>>

IsSome(o) == Len(o) = 1

Unwrap(o) == o[1]

Ok(x) == [ok |-> TRUE, v |-> x]

Err(e) == [ok |-> FALSE, v |-> e]

(***************************************************************************)
(* JsValue: the values that cross the binding as untyped JavaScript        *)
(* values: booleans, null, strings and host objects.                       *)
(***************************************************************************)
JsBool(b) == [kind |-> "boolean", b |-> b, s |-> ""]

JsNull == [kind |-> "null", b |-> FALSE, s |-> ""]

JsString(s) == [kind |-> "string", b |-> FALSE, s |-> s]

JsObject(s) == [kind |-> "object", b |-> FALSE, s |-> s]

as_bool(v) == IF v.kind = "boolean" THEN Some(v.b) ELSE None

unwrap_or(o, d) == IF IsSome(o) THEN Unwrap(o) ELSE d

(***************************************************************************)
(* f32: sign, 24-bit significand m and exponent e, value (-1)^neg*m*2^e,   *)
(* with m = 0 for zero and 2^23 <= m < 2^24 otherwise (normal numbers;     *)
(* the times and quotients of the model stay far from the exponent limits).*)
(***************************************************************************)
TwoP23 == 8388608

TwoP24 == 16777216

RECURSIVE Normalize(_, _, _)
Normalize(neg, m, e) ==
  IF m = 0 THEN [neg |-> neg, m |-> 0, e |-> 0]
  ELSE IF m < TwoP23 THEN Normalize(neg, 2 * m, e - 1)
  ELSE [neg |-> neg, m |-> m, e |-> e]

\* the f32 nearest to n * 2^e, for an integer |n| < 2^24 (exact)
F32(n, e) == IF n < 0 THEN Normalize(TRUE, -n, e) ELSE Normalize(FALSE, n, e)

\* long division of significands: n * 2^sh = q * d + r with 2^23 <= q < 2^24
RECURSIVE DivBits(_, _, _, _)
DivBits(q, r, d, sh) ==
  IF q >= TwoP23 THEN [q |-> q, r |-> r, sh |-> sh]
  ELSE DivBits(2 * q + ((2 * r) \div d), (2 * r) % d, d, sh + 1)

\* IEEE-754 binary32 division, round to nearest, ties to even (y # 0)
F32Div(x, y) ==
  IF x.m = 0 THEN [neg |-> (x.neg # y.neg), m |-> 0, e |-> 0]
  ELSE LET b  == DivBits(x.m \div y.m, x.m % y.m, y.m, 0)
           up == (2 * b.r > y.m) \/ (2 * b.r = y.m /\ b.q % 2 = 1)
           m  == IF up THEN b.q + 1 ELSE b.q
           e  == x.e - y.e - b.sh
       IN  IF m = TwoP24
           THEN [neg |-> (x.neg # y.neg), m |-> TwoP23, e |-> e + 1]
           ELSE [neg |-> (x.neg # y.neg), m |-> m, e |-> e]

(***************************************************************************)
(* u32 as two 16-bit halves <<hi, lo>> (value hi * 2^16 + lo), and the     *)
(* `as u32` cast of an i32: the value modulo 2^32.                         *)
(***************************************************************************)
TwoP16 == 65536

MaxI32 == 2147483647

as_u32(i) ==
  IF i >= 0 THEN [hi |-> i \div TwoP16, lo |-> i % TwoP16]
  ELSE LET j == (i + MaxI32) + 1      \* i + 2^31, in 0 .. 2^31 - 1
       IN  [hi |-> (j \div TwoP16) + 32768, lo |-> j % TwoP16]

(***************************************************************************)
(* The host document: the element, if any, behind each identifier.         *)
(***************************************************************************)
CanvasIds == {"main", "overlay", "sidebar", "missing"}

get_element_by_id(id) ==
  CASE id = "main"    -> Some("canvas")
    [] id = "overlay" -> Some("canvas")
    [] id = "sidebar" -> Some("div")
    [] OTHER          -> None

Hosts == {"no_window", "no_document", "document"}

ContextReplies == {"throws", "null", "webgl2", "other"}

StatusValues == {JsBool(TRUE), JsBool(FALSE), JsNull}

InfoLogs == {None, Some("ERROR: 0:1: syntax error")}

AttribLocations == {-1, 0, 1}

\* times in milliseconds handed to render: 0, 500, ..., 500 * MaxTicks and
\* a few that 1000 does not divide exactly
MaxTicks == 5

Times ==
  {F32(500 * k, 0) : k \in 0..MaxTicks}
    \cup {F32(1, 0), F32(33, -1), F32(16777215, 0)}

(***************************************************************************)
(* Fixed data of the program.                                              *)
(***************************************************************************)
VERT_SRC == "in vec2 position; out vec2 Position; gl_Position = vec4(position, 0.0, 1.0);"

FRAG_SRC == "uniform float u_time; in vec2 Position; out vec4 outColor;"

\* [0.0, 0.5, 0.5, -0.5, -0.5, -0.5]
vertices ==
  << F32(0, 0), F32(1, -1), F32(1, -1), F32(-1, -1), F32(-1, -1), F32(-1, -1) >>

\* the literal 1000.0
Thousand == F32(1000, 0)

\* clear_color(0.0, 0.0, 0.0, 1.0)
Black == << F32(0, 0), F32(0, 0), F32(0, 0), F32(1, 0) >>

(***************************************************************************)
(* GPU context state and the effect of the calls that return nothing.      *)
(* A call is a tuple whose first element is the method name.               *)
(***************************************************************************)
Handle(kind, id) == [kind |-> kind, id |-> id]

GlInit ==
  [ objects      |-> {},      \* shader, program, buffer, vertex-array objects
    nextId       |-> 1,
    sources      |-> {},      \* <<shader, source text>>
    compiled     |-> {},      \* shaders whose compile succeeded
    attached     |-> {},      \* <<program, shader>>
    linked       |-> {},      \* programs whose link succeeded
    program      |-> None,    \* current program
    array_buffer |-> None,    \* ARRAY_BUFFER binding
    vertex_array |-> None,    \* vertex-array binding
    buffer_data  |-> {},      \* [buffer, data, usage]
    attribs      |-> {},      \* attribute pointers requested, with bindings
    enabled      |-> {},      \* attribute arrays requested enabled
    clear_color  |-> << F32(0, 0), F32(0, 0), F32(0, 0), F32(0, 0) >>,
    color_buffer |-> << >>,   \* what was cleared and drawn since the clear
    u_time       |-> None ]   \* [program, value] of the last uniform1f

GlApply(g, c) ==
  CASE c[1] = "shader_source" ->
         [g EXCEPT !.sources = @ \cup {<<c[2], c[3]>>}]
    [] c[1] = "attach_shader" ->
         [g EXCEPT !.attached = @ \cup {<<c[2], c[3]>>}]
    [] c[1] = "use_program" ->
         [g EXCEPT !.program = Some(c[2])]
    [] c[1] = "bind_buffer" ->
         [g EXCEPT !.array_buffer = Some(c[3])]
    [] c[1] = "buffer_data" ->
         [g EXCEPT !.buffer_data =
            {d \in @ : Some(d.buffer) # g.array_buffer}
              \cup {[buffer |-> Unwrap(g.array_buffer), data |-> c[3], usage |-> c[4]]}]
    [] c[1] = "bind_vertex_array" ->
         [g EXCEPT !.vertex_array = Some(c[2])]
    [] c[1] = "vertex_attrib_pointer" ->
         [g EXCEPT !.attribs = @ \cup
            {[index |-> c[2], size |-> c[3], type |-> c[4], normalized |-> c[5],
              stride |-> c[6], offset |-> c[7],
              buffer |-> g.array_buffer, vao |-> g.vertex_array]}]
    [] c[1] = "enable_vertex_attrib_array" ->
         [g EXCEPT !.enabled = @ \cup {[index |-> c[2], vao |-> g.vertex_array]}]
    [] c[1] = "clear_color" ->
         [g EXCEPT !.clear_color = <<c[2], c[3], c[4], c[5]>>]
    [] c[1] = "clear" ->
         [g EXCEPT !.color_buffer = << <<"clear", g.clear_color>> >>]
    [] c[1] = "uniform1f" ->
         [g EXCEPT !.u_time = Some([program |-> g.program, value |-> c[3]])]
    [] c[1] = "draw_arrays" ->
         [g EXCEPT !.color_buffer =
            Append(@, <<"draw", c[2], c[3], c[4], g.program, g.vertex_array, g.u_time>>)]
    [] OTHER -> g

RECURSIVE GlRun(_, _)
GlRun(g, cs) == IF cs = << >> THEN g ELSE GlRun(GlApply(g, Head(cs)), Tail(cs))

\* create_shader / create_program / create_buffer / create_vertex_array
GlCreate(g, kind) ==
  [g EXCEPT !.objects = @ \cup {Handle(kind, g.nextId)}, !.nextId = @ + 1]

(***************************************************************************)
(* compile_shader and link_program.  `created`, `status` and `log` are the *)
(* GPU's answers to create_*, get_*_parameter and get_*_info_log.  Each    *)
(* returns the new context state, the calls it issued and its Result.      *)
(***************************************************************************)
\* variant: a status that is no boolean counts as success
status_ok_default_true(status) == unwrap_or(as_bool(status), TRUE)

status_ok(status) == unwrap_or(as_bool(status), FALSE)

compile_shader(g, shader_type, source, created, status, log) ==
  IF ~created
  THEN [gl    |-> g,
        calls |-> << <<"create_shader", shader_type>> >>,
        res   |-> Err("Unable to create shader object")]
  ELSE LET shader == Handle("shader", g.nextId)
           g1 == GlCreate(g, "shader")
           cs == << <<"create_shader", shader_type>>,
                    <<"shader_source", shader, source>>,
                    <<"compile_shader", shader>>,
                    <<"get_shader_parameter", shader, "COMPILE_STATUS">> >>
           g2 == [GlRun(g1, cs) EXCEPT !.compiled =
                    IF status = JsBool(TRUE) THEN @ \cup {shader} ELSE @]
       IN  IF status_ok(status)
           THEN [gl |-> g2, calls |-> cs, res |-> Ok(shader)]
           ELSE [gl    |-> g2,
                 calls |-> Append(cs, <<"get_shader_info_log", shader>>),
                 res   |-> Err(unwrap_or(log, "Unknown error creating shader"))]

link_program(g, vert_shader, frag_shader, created, status, log) ==
  IF ~created
  THEN [gl    |-> g,
        calls |-> << <<"create_program">> >>,
        res   |-> Err("Unable to create shader object")]
  ELSE LET program == Handle("program", g.nextId)
           g1 == GlCreate(g, "program")
           cs == << <<"create_program">>,
                    <<"attach_shader", program, vert_shader>>,
                    <<"attach_shader", program, frag_shader>>,
                    <<"link_program", program>>,
                    <<"get_program_parameter", program, "LINK_STATUS">> >>
           g2 == [GlRun(g1, cs) EXCEPT !.linked =
                    IF status = JsBool(TRUE) THEN @ \cup {program} ELSE @]
       IN  IF status_ok(status)
           THEN [gl |-> g2, calls |-> cs, res |-> Ok(program)]
           ELSE [gl    |-> g2,
                 calls |-> Append(cs, <<"get_program_info_log", program>>),
                 res   |-> Err(unwrap_or(log, "Unknown error creating program object"))]

(***************************************************************************)
(* State.  pc is the position in WebGlCanvas::new ("new" before the call), *)
(* then "constructed", "failed" (new returned Err) or "panicked" (an       *)
(* unwrap/expect hit None: the call never returns).                        *)
(***************************************************************************)
HostInit ==
  [ document |-> None, element |-> None, context |-> None, vert |-> None,
    frag |-> None, link |-> None, attrib |-> None, buffer |-> None,
    vao |-> None, uniform |-> None ]

LocInit ==
  [ canvas_id |-> "", canvas |-> None, context |-> None, vert_shader |-> None,
    frag_shader |-> None, program |-> None,
    position_attribute_location |-> None, buffer |-> None, vao |-> None ]

Init ==
  /\ pc = "new"
  /\ host = HostInit
  /\ loc = LocInit
  /\ gl = GlInit
  /\ calls = << >>
  /\ self = None
  /\ ret = None
  /\ frame = << >>
  /\ lastTime = None

\* `?` on an Err, or ok_or(..)? on a None: new returns the error as a JsValue
Fail(e) ==
  /\ pc' = "failed"
  /\ ret' = Some(Err(e))
  /\ UNCHANGED <<self, frame, lastTime>>

\* unwrap() on a None
Panic ==
  /\ pc' = "panicked"
  /\ UNCHANGED <<self, ret, frame, lastTime>>

Goto(next) ==
  /\ pc' = next
  /\ UNCHANGED <<self, ret, frame, lastTime>>

\* web_sys::window().unwrap().document().unwrap()
NewDocument ==
  /\ pc = "new"
  /\ \E canvas_id \in CanvasIds, h \in Hosts :
       /\ host' = [host EXCEPT !.document = Some(h)]
       /\ loc' = [loc EXCEPT !.canvas_id = canvas_id]
       /\ IF h = "document" THEN Goto("get_canvas") ELSE Panic
  /\ UNCHANGED <<gl, calls>>

\* document.get_element_by_id(&canvas_id).unwrap(); canvas.dyn_into()?
GetCanvas ==
  /\ pc = "get_canvas"
  /\ LET element == get_element_by_id(loc.canvas_id)
     IN  /\ host' = [host EXCEPT !.element = Some(element)]
         /\ IF ~IsSome(element)
            THEN Panic /\ UNCHANGED loc
            ELSE IF Unwrap(element) # "canvas"
            THEN Fail(JsObject(Unwrap(element))) /\ UNCHANGED loc
            ELSE /\ Goto("get_context")
                 /\ loc' = [loc EXCEPT !.canvas = Some(loc.canvas_id)]
  /\ UNCHANGED <<gl, calls>>

\* canvas.get_context("webgl2")?.unwrap().dyn_into::<WebGl2RenderingContext>()?
GetContext ==
  /\ pc = "get_context"
  /\ \E r \in ContextReplies :
       /\ host' = [host EXCEPT !.context = Some(r)]
       /\ CASE r = "throws" -> Fail(JsObject("exception")) /\ UNCHANGED loc
            [] r = "null"   -> Panic /\ UNCHANGED loc
            [] r = "other"  -> Fail(JsObject("other context")) /\ UNCHANGED loc
            [] r = "webgl2" -> /\ Goto("vert_shader")
                               /\ loc' = [loc EXCEPT !.context = Some("webgl2")]
  /\ UNCHANGED <<gl, calls>>

\* let vert_shader = compile_shader(&context, VERTEX_SHADER, ..)?
CompileVert ==
  /\ pc = "vert_shader"
  /\ \E created \in BOOLEAN, status \in StatusValues, log \in InfoLogs :
       LET r == compile_shader(gl, "VERTEX_SHADER", VERT_SRC, created, status, log)
       IN  /\ host' = [host EXCEPT !.vert =
                         Some([created |-> created, status |-> status, log |-> log])]
           /\ gl' = r.gl
           /\ calls' = calls \o r.calls
           /\ IF r.res.ok
              THEN /\ Goto("frag_shader")
                   /\ loc' = [loc EXCEPT !.vert_shader = Some(r.res.v)]
              ELSE Fail(JsString(r.res.v)) /\ UNCHANGED loc

\* let frag_shader = compile_shader(&context, FRAGMENT_SHADER, ..)?
CompileFrag ==
  /\ pc = "frag_shader"
  /\ \E created \in BOOLEAN, status \in StatusValues, log \in InfoLogs :
       LET r == compile_shader(gl, "FRAGMENT_SHADER", FRAG_SRC, created, status, log)
       IN  /\ host' = [host EXCEPT !.frag =
                         Some([created |-> created, status |-> status, log |-> log])]
           /\ gl' = r.gl
           /\ calls' = calls \o r.calls
           /\ IF r.res.ok
              THEN /\ Goto("link")
                   /\ loc' = [loc EXCEPT !.frag_shader = Some(r.res.v)]
              ELSE Fail(JsString(r.res.v)) /\ UNCHANGED loc

\* let program = link_program(&context, &vert_shader, &frag_shader)?
LinkProgram ==
  /\ pc = "link"
  /\ \E created \in BOOLEAN, status \in StatusValues, log \in InfoLogs :
       LET r == link_program(gl, Unwrap(loc.vert_shader), Unwrap(loc.frag_shader),
                             created, status, log)
       IN  /\ host' = [host EXCEPT !.link =
                         Some([created |-> created, status |-> status, log |-> log])]
           /\ gl' = r.gl
           /\ calls' = calls \o r.calls
           /\ IF r.res.ok
              THEN /\ Goto("use_program")
                   /\ loc' = [loc EXCEPT !.program = Some(r.res.v)]
              ELSE Fail(JsString(r.res.v)) /\ UNCHANGED loc

\* context.use_program(Some(&program)); let vertices = [..];
\* let position_attribute_location = context.get_attrib_location(&program, "position")
UseProgram ==
  /\ pc = "use_program"
  /\ \E location \in AttribLocations :
       LET program == Unwrap(loc.program)
           cs == << <<"use_program", program>>,
                    <<"get_attrib_location", program, "position">> >>
       IN  /\ host' = [host EXCEPT !.attrib = Some(location)]
           /\ gl' = GlRun(gl, cs)
           /\ calls' = calls \o cs
           /\ loc' = [loc EXCEPT !.position_attribute_location = Some(location)]
           /\ Goto("buffer")

\* variant: a failed create_buffer is attempted a second time before giving up
upload_vertices_retry(g, created) ==
  IF ~created
  THEN [gl    |-> g,
        calls |-> << <<"create_buffer">>, <<"create_buffer">> >>,
        res   |-> Err("Failed to create buffer")]
  ELSE LET buffer == Handle("buffer", g.nextId)
           cs == << <<"create_buffer">>,
                    <<"bind_buffer", "ARRAY_BUFFER", buffer>>,
                    <<"buffer_data", "ARRAY_BUFFER", vertices, "STATIC_DRAW">> >>
       IN  [gl |-> GlRun(GlCreate(g, "buffer"), cs), calls |-> cs, res |-> Ok(buffer)]

\* create_buffer().ok_or("Failed to create buffer")?; bind_buffer; buffer_data
upload_vertices(g, created) ==
  IF ~created
  THEN [gl    |-> g,
        calls |-> << <<"create_buffer">> >>,
        res   |-> Err("Failed to create buffer")]
  ELSE LET buffer == Handle("buffer", g.nextId)
           cs == << <<"create_buffer">>,
                    <<"bind_buffer", "ARRAY_BUFFER", buffer>>,
                    <<"buffer_data", "ARRAY_BUFFER", vertices, "STATIC_DRAW">> >>
       IN  [gl |-> GlRun(GlCreate(g, "buffer"), cs), calls |-> cs, res |-> Ok(buffer)]

CreateBuffer ==
  /\ pc = "buffer"
  /\ \E created \in BOOLEAN :
       LET r == upload_vertices(gl, created)
       IN  /\ host' = [host EXCEPT !.buffer = Some(created)]
           /\ gl' = r.gl
           /\ calls' = calls \o r.calls
           /\ IF r.res.ok
              THEN /\ Goto("vertex_array")
                   /\ loc' = [loc EXCEPT !.buffer = Some(r.res.v)]
              ELSE Fail(JsString(r.res.v)) /\ UNCHANGED loc

\* variant: an invalid location falls back to attribute 0
attrib_index_clamped(location) == IF location < 0 THEN as_u32(0) ELSE as_u32(location)

\* position_attribute_location as u32
attrib_index(location) == as_u32(location)

\* create_vertex_array().ok_or(..)?; bind_vertex_array; vertex_attrib_pointer;
\* enable_vertex_attrib_array; bind_vertex_array
configure_vertex_array(g, location, created) ==
  IF ~created
  THEN [gl    |-> g,
        calls |-> << <<"create_vertex_array">> >>,
        res   |-> Err("Could not create vertex array object")]
  ELSE LET vao == Handle("vertex_array", g.nextId)
           cs == << <<"create_vertex_array">>,
                    <<"bind_vertex_array", vao>>,
                    <<"vertex_attrib_pointer", attrib_index(location), 2, "FLOAT",
                      FALSE, 0, 0>>,
                    <<"enable_vertex_attrib_array", attrib_index(location)>>,
                    <<"bind_vertex_array", vao>> >>
       IN  [gl |-> GlRun(GlCreate(g, "vertex_array"), cs), calls |-> cs, res |-> Ok(vao)]

\* the WebGlCanvas value of the final Ok(..)
WebGlCanvas(l) ==
  [ canvas      |-> Unwrap(l.canvas),
    context     |-> Unwrap(l.context),
    vert_shader |-> Unwrap(l.vert_shader),
    frag_shader |-> Unwrap(l.frag_shader),
    program     |-> Unwrap(l.program),
    vertices    |-> vertices ]

CreateVao ==
  /\ pc = "vertex_array"
  /\ \E created \in BOOLEAN :
       LET r == configure_vertex_array(gl, Unwrap(loc.position_attribute_location),
                                       created)
       IN  /\ host' = [host EXCEPT !.vao = Some(created)]
           /\ gl' = r.gl
           /\ calls' = calls \o r.calls
           /\ IF r.res.ok
              THEN /\ pc' = "constructed"
                   /\ loc' = [loc EXCEPT !.vao = Some(r.res.v)]
                   /\ self' = Some(WebGlCanvas(loc))
                   /\ ret' = Some(Ok(JsObject("WebGlCanvas")))
                   /\ UNCHANGED <<frame, lastTime>>
              ELSE Fail(JsString(r.res.v)) /\ UNCHANGED loc

(***************************************************************************)
(* WebGlCanvas::render(&self, time: f32).  `time_location` is the answer   *)
(* of get_uniform_location: None when the program has no active u_time.    *)
(***************************************************************************)
\* variant: the number of floats instead of the number of vertices
vert_count_floats(vs) == Len(vs)

\* (self.vertices.len() / 2) as i32
vert_count(vs) == Len(vs) \div 2

\* variant: the milliseconds are written as they come
seconds_unscaled(time) == time

\* (time/1000.0) as f32
seconds(time) == F32Div(time, Thousand)

\* variant: the frame is cleared before the uniform location is checked
render_clear_first(g, s, time, time_location) ==
  LET lookup == << <<"get_uniform_location", s.program, "u_time">> >>
      clearing == << <<"clear_color", F32(0, 0), F32(0, 0), F32(0, 0), F32(1, 0)>>,
                     <<"clear", "COLOR_BUFFER_BIT">> >>
  IN  IF ~IsSome(time_location)
      THEN [gl |-> GlRun(g, clearing), calls |-> lookup \o clearing, panicked |-> TRUE]
      ELSE LET cs == lookup \o clearing \o
                     << <<"uniform1f", time_location, seconds(time)>>,
                        <<"draw_arrays", "TRIANGLES", 0, vert_count(s.vertices)>> >>
           IN  [gl |-> GlRun(g, cs), calls |-> cs, panicked |-> FALSE]

\* variant: the vertex array is unbound (bound to the null object) after the draw
render_unbinding(g, s, time, time_location) ==
  LET lookup == << <<"get_uniform_location", s.program, "u_time">> >>
  IN  IF ~IsSome(time_location)
      THEN [gl |-> g, calls |-> lookup, panicked |-> TRUE]
      ELSE LET cs == lookup \o
                     << <<"clear_color", F32(0, 0), F32(0, 0), F32(0, 0), F32(1, 0)>>,
                        <<"clear", "COLOR_BUFFER_BIT">>,
                        <<"uniform1f", time_location, seconds(time)>>,
                        <<"draw_arrays", "TRIANGLES", 0, vert_count(s.vertices)>>,
                        <<"bind_vertex_array", Handle("vertex_array", 0)>> >>
           IN  [gl |-> GlRun(g, cs), calls |-> cs, panicked |-> FALSE]

render(g, s, time, time_location) ==
  LET lookup == << <<"get_uniform_location", s.program, "u_time">> >>
  IN  IF ~IsSome(time_location)
      THEN [gl |-> g, calls |-> lookup, panicked |-> TRUE]
      ELSE LET cs == lookup \o
                     << <<"clear_color", F32(0, 0), F32(0, 0), F32(0, 0), F32(1, 0)>>,
                        <<"clear", "COLOR_BUFFER_BIT">>,
                        <<"uniform1f", time_location, seconds(time)>>,
                        <<"draw_arrays", "TRIANGLES", 0, vert_count(s.vertices)>> >>
           IN  [gl |-> GlRun(g, cs), calls |-> cs, panicked |-> FALSE]

UniformReplies == {None, Some("u_time")}

Render ==
  /\ pc = "constructed"
  /\ IsSome(self)
  /\ \E time \in Times, time_location \in UniformReplies :
       LET r == render(gl, Unwrap(self), time, time_location)
       IN  /\ host' = [host EXCEPT !.uniform = Some(IsSome(time_location))]
           /\ gl' = r.gl
           /\ frame' = r.calls
           /\ lastTime' = Some(time)
           /\ pc' = IF r.panicked THEN "render_panicked" ELSE "constructed"
  /\ UNCHANGED <<loc, calls, self, ret>>

Next ==
  \/ NewDocument
  \/ GetCanvas
  \/ GetContext
  \/ CompileVert
  \/ CompileFrag
  \/ LinkProgram
  \/ UseProgram
  \/ CreateBuffer
  \/ CreateVao
  \/ Render

Spec == Init /\ [][Next]_vars

(***************************************************************************)
(* Vocabulary of the properties.                                           *)
(***************************************************************************)
Ops(cs) == {cs[i][1] : i \in DOMAIN cs}

CountOp(cs, op) == Cardinality({i \in DOMAIN cs : cs[i][1] = op})

LinkOps ==
  {"create_program", "attach_shader", "link_program", "get_program_parameter",
   "get_program_info_log"}

ActivateOps == {"use_program", "get_attrib_location"}

UploadOps == {"bind_buffer", "buffer_data"}

VaoOps == {"bind_vertex_array", "vertex_attrib_pointer", "enable_vertex_attrib_array"}

RenderEffectOps == {"clear_color", "clear", "uniform1f", "draw_arrays"}

Answered(step) == IsSome(host[step])

\* the GPU's answer makes the compile or link step fail
BadAnswer(a) == ~a.created \/ a.status # JsBool(TRUE)

ExpectedMessage(a, default) ==
  IF ~a.created THEN "Unable to create shader object"
  ELSE IF IsSome(a.log) THEN Unwrap(a.log) ELSE default

ReturnedErr(msg) == pc = "failed" /\ ret = Some(Err(JsString(msg))) /\ self = None

\* the latest render call ran to its end
Rendered == pc = "constructed" /\ IsSome(lastTime)

(***************************************************************************)
(* C1: when the identifier resolves to no element of the document, new     *)
(* returns an error value (it does not abort) and no GPU object exists.    *)
(***************************************************************************)
C1_MissingSurfaceReturnsError ==
  (Answered("element") /\ ~IsSome(Unwrap(host.element))) =>
     /\ pc = "failed"
     /\ IsSome(ret) /\ ~Unwrap(ret).ok
     /\ gl.objects = {}

(***************************************************************************)
(* C2: when the canvas exists but get_context yields no context, new       *)
(* returns an error value and no shader, program, buffer or vertex array   *)
(* exists.                                                                 *)
(***************************************************************************)
C2_NoContextReturnsError ==
  (Answered("context") /\ Unwrap(host.context) = "null") =>
     /\ pc = "failed"
     /\ IsSome(ret) /\ ~Unwrap(ret).ok
     /\ gl.objects = {}

(***************************************************************************)
(* C3: a failing vertex compile, fragment compile, link, buffer allocation *)
(* or vertex-array allocation makes new return that step's own error, with *)
(* no GPU call of a later step issued, the failed step attempted once, and *)
(* no canvas value.                                                        *)
(***************************************************************************)
C3_VertFails ==
  (Answered("vert") /\ BadAnswer(Unwrap(host.vert))) =>
     /\ ReturnedErr(ExpectedMessage(Unwrap(host.vert), "Unknown error creating shader"))
     /\ CountOp(calls, "create_shader") = 1
     /\ CountOp(calls, "compile_shader") <= 1
     /\ Ops(calls) \cap (LinkOps \cup ActivateOps \cup {"create_buffer"} \cup UploadOps
                           \cup {"create_vertex_array"} \cup VaoOps) = {}

C3_FragFails ==
  (Answered("frag") /\ BadAnswer(Unwrap(host.frag))) =>
     /\ ReturnedErr(ExpectedMessage(Unwrap(host.frag), "Unknown error creating shader"))
     /\ CountOp(calls, "create_shader") = 2
     /\ CountOp(calls, "compile_shader") <= 2
     /\ Ops(calls) \cap (LinkOps \cup ActivateOps \cup {"create_buffer"} \cup UploadOps
                           \cup {"create_vertex_array"} \cup VaoOps) = {}

C3_LinkFails ==
  (Answered("link") /\ BadAnswer(Unwrap(host.link))) =>
     /\ ReturnedErr(ExpectedMessage(Unwrap(host.link),
                                    "Unknown error creating program object"))
     /\ CountOp(calls, "create_program") = 1
     /\ CountOp(calls, "link_program") <= 1
     /\ Ops(calls) \cap (ActivateOps \cup {"create_buffer"} \cup UploadOps
                           \cup {"create_vertex_array"} \cup VaoOps) = {}

C3_BufferFails ==
  (Answered("buffer") /\ ~Unwrap(host.buffer)) =>
     /\ ReturnedErr("Failed to create buffer")
     /\ CountOp(calls, "create_buffer") = 1
     /\ Ops(calls) \cap (UploadOps \cup {"create_vertex_array"} \cup VaoOps) = {}

C3_VaoFails ==
  (Answered("vao") /\ ~Unwrap(host.vao)) =>
     /\ ReturnedErr("Could not create vertex array object")
     /\ CountOp(calls, "create_vertex_array") = 1
     /\ Ops(calls) \cap VaoOps = {}

C3_FailedStepIsTerminal ==
  /\ C3_VertFails
  /\ C3_FragFails
  /\ C3_LinkFails
  /\ C3_BufferFails
  /\ C3_VaoFails

\* a failed buffer allocation after a successful link and use_program
C3_Witness ==
  /\ Answered("buffer") /\ ~Unwrap(host.buffer)
  /\ pc = "failed"
  /\ "use_program" \in Ops(calls)

(***************************************************************************)
(* C4: a construction attempt ends either fully constructed or failed with *)
(* an error, nothing else, and render runs only on a canvas whose          *)
(* construction compiled both shaders, linked and activated the program,   *)
(* uploaded the vertices and configured the vertex array.                  *)
(***************************************************************************)
InProgress ==
  {"new", "get_canvas", "get_context", "vert_shader", "frag_shader", "link",
   "use_program", "buffer", "vertex_array"}

FullyConstructed ==
  /\ IsSome(self)
  /\ ret = Some(Ok(JsObject("WebGlCanvas")))
  /\ {Unwrap(self).vert_shader, Unwrap(self).frag_shader} \subseteq gl.compiled
  /\ Unwrap(self).vert_shader # Unwrap(self).frag_shader
  /\ Unwrap(self).program \in gl.linked
  /\ gl.program = Some(Unwrap(self).program)
  /\ \E d \in gl.buffer_data : d.data = vertices /\ gl.array_buffer = Some(d.buffer)
  /\ IsSome(gl.vertex_array)
  /\ \E a \in gl.attribs : a.vao = gl.vertex_array
  /\ \E a \in gl.enabled : a.vao = gl.vertex_array

ConstructionFailed == pc = "failed" /\ IsSome(ret) /\ ~Unwrap(ret).ok /\ self = None

C4_TwoOutcomes ==
  /\ pc \notin InProgress => (FullyConstructed \/ ConstructionFailed)
  /\ IsSome(lastTime) => FullyConstructed

(***************************************************************************)
(* C5: the value render writes to u_time is its argument divided by 1000   *)
(* in single precision, whatever was rendered before: it is the f32        *)
(* nearest to time / 1000 (ties to even), so 0 gives 0.0, 1000 gives 1.0   *)
(* and 2500 gives 2.5.                                                     *)
(***************************************************************************)
\* v = m_v * 2^e_v is the f32 nearest to t / 1000: with k = e_t - e_v and
\* m_t = 1000 * a + b, the exact quotient in units of 2^e_v is
\* Q + R / 1000 where Q = a * 2^k + (b * 2^k) \div 1000
NearestToThousandth(t, v) ==
  IF t.m = 0 THEN v.m = 0
  ELSE LET k == t.e - v.e
           a == t.m \div 1000
           b == t.m % 1000
       IN  /\ v.neg = t.neg
           /\ v.m >= TwoP23 /\ v.m < TwoP24
           /\ k \in 0..10
           /\ LET Q == a * (2 ^ k) + ((b * (2 ^ k)) \div 1000)
                  R == (b * (2 ^ k)) % 1000
              IN  \/ v.m = Q /\ (2 * R < 1000 \/ (2 * R = 1000 /\ Q % 2 = 0))
                  \/ v.m = Q + 1 /\ (2 * R > 1000 \/ (2 * R = 1000 /\ Q % 2 = 1))

UniformWrites == {i \in DOMAIN frame : frame[i][1] = "uniform1f"}

C5_UniformIsSeconds ==
  Rendered =>
    /\ Cardinality(UniformWrites) = 1
    /\ \A i \in UniformWrites :
         /\ NearestToThousandth(Unwrap(lastTime), frame[i][3])
         /\ gl.u_time = Some([program |-> Some(Unwrap(self).program),
                              value |-> frame[i][3]])
    /\ (Unwrap(lastTime) = F32(0, 0) => Unwrap(gl.u_time).value = F32(0, 0))
    /\ (Unwrap(lastTime) = F32(1000, 0) => Unwrap(gl.u_time).value = F32(1, 0))
    /\ (Unwrap(lastTime) = F32(2500, 0) => Unwrap(gl.u_time).value = F32(5, -1))

\* render(2500.0) has written 2.5
C5_Witness ==
  /\ Rendered
  /\ Unwrap(lastTime) = F32(2500, 0)
  /\ Unwrap(gl.u_time).value = F32(5, -1)

(***************************************************************************)
(* C6: a render call that reaches the draw step issues exactly one draw    *)
(* call: a triangle list from vertex 0 with 3 vertices.                    *)
(***************************************************************************)
DrawCalls == {i \in DOMAIN frame : frame[i][1] = "draw_arrays"}

DrawnInBuffer == {i \in DOMAIN gl.color_buffer : gl.color_buffer[i][1] = "draw"}

C6_OneTriangleDraw ==
  Rendered =>
    /\ Cardinality(DrawCalls) = 1
    /\ \A i \in DrawCalls : frame[i] = <<"draw_arrays", "TRIANGLES", 0, 3>>
    /\ Cardinality(DrawnInBuffer) = 1
    /\ \A i \in DrawnInBuffer :
         /\ gl.color_buffer[i][2] = "TRIANGLES"
         /\ gl.color_buffer[i][3] = 0
         /\ gl.color_buffer[i][4] = 3

C6_Witness ==
  /\ Rendered
  /\ Unwrap(lastTime) = F32(1500, 0)
  /\ Cardinality(DrawCalls) = 1

(***************************************************************************)
(* C7: once constructed, no render changes the uploaded vertex data, the   *)
(* canvas value with its six floats, or the current program, array-buffer  *)
(* and vertex-array bindings; the data stays (0, 0.5), (0.5, -0.5),        *)
(* (-0.5, -0.5); only clear color, color buffer and u_time change.         *)
(***************************************************************************)
Triangle ==
  << [neg |-> FALSE, m |-> 0, e |-> 0],
     [neg |-> FALSE, m |-> TwoP23, e |-> -24],
     [neg |-> FALSE, m |-> TwoP23, e |-> -24],
     [neg |-> TRUE,  m |-> TwoP23, e |-> -24],
     [neg |-> TRUE,  m |-> TwoP23, e |-> -24],
     [neg |-> TRUE,  m |-> TwoP23, e |-> -24] >>

GeometryAsConstructed ==
  /\ Unwrap(self).vertices = Triangle
  /\ gl.buffer_data =
       {[buffer |-> Unwrap(loc.buffer), data |-> Triangle, usage |-> "STATIC_DRAW"]}
  /\ gl.program = Some(Unwrap(self).program)
  /\ gl.array_buffer = loc.buffer
  /\ gl.vertex_array = loc.vao

C7_RenderKeepsGeometry ==
  [][ IsSome(self) =>
        /\ GeometryAsConstructed
        /\ GeometryAsConstructed'
        /\ self' = self
        /\ \A f \in DOMAIN gl \ {"clear_color", "color_buffer", "u_time"} :
             gl'[f] = gl[f] ]_vars

C7_Witness ==
  /\ Rendered
  /\ gl.clear_color = Black
  /\ Len(gl.color_buffer) = 2
  /\ GeometryAsConstructed

(***************************************************************************)
(* C8: when the lookup of u_time yields no location, render aborts before  *)
(* anything else: no clear, no uniform write, no draw, GPU state as it     *)
(* was.                                                                    *)
(***************************************************************************)
C8_MissingUniformAborts ==
  [][ (pc = "constructed" /\ host'.uniform = Some(FALSE)) =>
        /\ pc' = "render_panicked"
        /\ gl' = gl
        /\ Ops(frame') \cap RenderEffectOps = {}
        /\ frame' = << <<"get_uniform_location", Unwrap(self).program, "u_time">> >> ]_vars

\* a render aborted after an earlier one had drawn
C8_Witness ==
  /\ pc = "render_panicked"
  /\ host.uniform = Some(FALSE)
  /\ Len(gl.color_buffer) = 2

(***************************************************************************)
(* C9: compile_shader and link_program return a handle exactly when the    *)
(* status flag is the boolean true; otherwise the error is the info log,   *)
(* or the fixed default when there is no log; when the object cannot be    *)
(* created the error is "Unable to create shader object" and no source is  *)
(* set, nothing is compiled, attached or linked.                           *)
(***************************************************************************)
HelperContract(a, handle, default) ==
  /\ IsSome(handle) <=> (a.created /\ a.status = JsBool(TRUE))
  /\ (~IsSome(handle)) =>
       /\ pc = "failed"
       /\ ret = Some(Err(JsString(
            IF ~a.created THEN "Unable to create shader object"
            ELSE IF a.log = None THEN default ELSE a.log[1])))

C9_Vert ==
  Answered("vert") =>
    /\ HelperContract(Unwrap(host.vert), loc.vert_shader, "Unknown error creating shader")
    /\ (~Unwrap(host.vert).created) =>
          Ops(calls) \cap {"shader_source", "compile_shader", "get_shader_parameter",
                           "get_shader_info_log"} = {}

C9_Frag ==
  Answered("frag") =>
    /\ HelperContract(Unwrap(host.frag), loc.frag_shader, "Unknown error creating shader")
    /\ (~Unwrap(host.frag).created) =>
          /\ CountOp(calls, "shader_source") = 1
          /\ CountOp(calls, "compile_shader") = 1
          /\ CountOp(calls, "get_shader_parameter") = 1

C9_Link ==
  Answered("link") =>
    /\ HelperContract(Unwrap(host.link), loc.program,
                      "Unknown error creating program object")
    /\ (~Unwrap(host.link).created) =>
          Ops(calls) \cap {"attach_shader", "link_program", "get_program_parameter",
                           "get_program_info_log"} = {}

C9_StatusDecides ==
  /\ C9_Vert
  /\ C9_Frag
  /\ C9_Link

\* the link status came back as a non-boolean and there was no info log
C9_Witness ==
  /\ Answered("link")
  /\ Unwrap(host.link) = [created |-> TRUE, status |-> JsNull, log |-> None]
  /\ ret = Some(Err(JsString("Unknown error creating program object")))

(***************************************************************************)
(* C10, as claimed: whatever get_attrib_location returns, -1 included, the *)
(* one attribute configured (2 x FLOAT, not normalized, stride 0, offset   *)
(* 0) and enabled is index 0, with the vertex buffer and the new vertex    *)
(* array bound.                                                            *)
(***************************************************************************)
AttribState(index) ==
  /\ gl.attribs =
       {[index |-> index, size |-> 2, type |-> "FLOAT", normalized |-> FALSE,
         stride |-> 0, offset |-> 0, buffer |-> loc.buffer, vao |-> loc.vao]}
  /\ gl.enabled = {[index |-> index, vao |-> loc.vao]}
  /\ IsSome(loc.buffer) /\ IsSome(loc.vao)
  /\ Unwrap(loc.vao) \in gl.objects
  /\ \E d \in gl.buffer_data : d.buffer = Unwrap(loc.buffer) /\ d.data = Triangle

C10_AlwaysIndexZero == IsSome(self) => AttribState([hi |-> 0, lo |-> 0])

(***************************************************************************)
(* C10, amended: the index passed to the one vertex_attrib_pointer call    *)
(* and the one enable_vertex_attrib_array call is the returned location    *)
(* cast to u32: 0 only when the query returns 0, 4294967295 (0xFFFF_FFFF)  *)
(* when it returns -1; both calls are made with the vertex buffer and the  *)
(* new vertex array bound.                                                 *)
(***************************************************************************)
CastIndex(location) ==
  IF location = -1 THEN [hi |-> 65535, lo |-> 65535] ELSE [hi |-> 0, lo |-> location]

C10_IndexIsCastLocation ==
  IsSome(self) =>
    /\ AttribState(CastIndex(Unwrap(host.attrib)))
    /\ (\E a \in gl.attribs : a.index = [hi |-> 0, lo |-> 0]) <=> Unwrap(host.attrib) = 0

\* constructed although the query for "position" returned -1
C10_Witness ==
  /\ IsSome(self)
  /\ Unwrap(host.attrib) = -1
  /\ \E a \in gl.enabled : a.index = [hi |-> 65535, lo |-> 65535]

====
